---- MODULE Spec2Model ----
(***************************************************************************)
(* Model of admin.T (src/admin/admin.go): the administrative operations    *)
(* GetGroupOffsets, SetGroupOffsets, GetTopicConsumers and                 *)
(* GetAllTopicConsumers of kafka-pixy, with the Kafka brokers, the group   *)
(* coordinator and the ZooKeeper tree as a nondeterministic environment.   *)
(***************************************************************************)
EXTENDS Integers, Sequences, FiniteSets, TLC

(* ------------------------------ bounds --------------------------------- *)
\* Longest partition list Partitions(topic) returns. Partition ids are
\* 0..MaxParts-1, in any order; a list of n partitions has at most n leaders, so
\* brokers are 1..MaxParts.
MaxParts == 2
\* Longest []PartitionOffset handed to SetGroupOffsets.
MaxRecs == 2
\* Offsets committed by SetGroupOffsets are 0..MaxOffset.
MaxOffset == 1

\* Most children of one ownership path in the tree store.
MaxChildren == 2

PartIds == 0..(MaxParts - 1)
Brokers == 1..MaxParts

VARIABLES
    kafkaClt,           \* T.kafkaClt: "nil" or "open"
    zkConn,             \* T.zkConn: "nil" or "open"
    committed,          \* the coordinator's store: partition -> committed offset/metadata
    lastSet,            \* the last SetGroupOffsets call: its records and its result
    pc,                 \* position of the caller of GetGroupOffsets
    partitions,         \* GetGroupOffsets: local partitions
    brokerToPartitions, \* GetGroupOffsets: local brokerToPartitions
    offsets,            \* GetGroupOffsets: local offsets (the shared result array)
    writes,             \* GetGroupOffsets: per index of offsets, the goroutines that wrote it
    task,               \* GetGroupOffsets: the spawned adminOffsetFetcher goroutines
    errorsCh,           \* GetGroupOffsets: the buffered channel errorsCh
    wg,                 \* GetGroupOffsets: the WaitGroup counter
    fetchRes,           \* GetGroupOffsets: what Coordinator/FetchOffset answered
    ret,                \* GetGroupOffsets: the returned ([]PartitionOffset, error)
    tree,               \* the tree store: group -> its ownership node for the topic
    cpc,                \* position of the caller of the consumer scans
    call,               \* the scan that was called and what the tree store answered
    cret,               \* the values the scan returned
    mtx,                \* T.mtx: 0 when unlocked, else the caller that locked it
    proc,               \* concurrent callers: the operation each is in and its position
    conns,              \* per connection: what NewClient/Connect and Close were asked
    calls               \* the number of operations called so far

offsetVars == <<kafkaClt, committed, lastSet, pc, partitions, brokerToPartitions,
                offsets, writes, task, errorsCh, wg, fetchRes, ret>>
consumerVars == <<zkConn, tree, cpc, call, cret>>
connVars == <<mtx, proc, conns, calls>>
vars == <<offsetVars, consumerVars, connVars>>

(* ------------------------------ errors --------------------------------- *)
\* A Go error value: its dynamic type, its message and its root cause.
NilErr == [dyn |-> "nil", msg |-> "", cause |-> ""]

\* errors.New / errors.Errorf of github.com/pkg/errors.
errorsNew(msg) == [dyn |-> "*errors.fundamental", msg |-> msg, cause |-> msg]

\* An error value produced by a collaborator (sarama, zk, strconv).
extErr(dyn, what) == [dyn |-> dyn, msg |-> what, cause |-> what]

\* errors.Wrap / errors.Wrapf of github.com/pkg/errors: nil when err is nil.
errorsWrapf(err, msg) ==
    IF err = NilErr THEN NilErr
    ELSE [dyn |-> "*errors.withStack", msg |-> msg, cause |-> err.cause]

\* sarama.ErrNoError, the KError code of success.
ErrNoError == 0
\* The non-success KError codes the environment reports
\* (ErrUnknownTopicOrPartition, ErrOffsetsLoadInProgress).
ErrCodes == {3, 14}

\* A KError used as an error value.
KError(code) == extErr("sarama.KError", IF code = 3
                                         THEN "kafka: unknown topic or partition"
                                         ELSE "kafka: offsets load in progress")

(* ------------------------- slices and records -------------------------- *)
\* A Go slice: the nil slice is distinct from an empty one.
NilSlice == [isNil |-> TRUE, elems |-> <<>>]
Slice(s) == [isNil |-> FALSE, elems |-> s]

\* The zero PartitionOffset.
ZeroPartitionOffset ==
    [Partition |-> 0, Begin |-> 0, End |-> 0, Offset |-> 0, Metadata |-> ""]

\* make([]PartitionOffset, n)
MakeOffsets(n) == [i \in 1..n |-> ZeroPartitionOffset]

\* All sequences over S without repetition, of length at most n.
InjSeqs(S, n) ==
    UNION {{s \in [1..k -> S] : \A i, j \in 1..k : i # j => s[i] # s[j]} : k \in 0..n}

Range(s) == {s[i] : i \in DOMAIN s}

\* All orders in which the elements of S can be listed.
Perms(S) ==
    {q \in [1..Cardinality(S) -> S] : \A i, j \in DOMAIN q : i # j => q[i] # q[j]}

(* ------------------------ the brokers' answers ------------------------- *)
\* The log of partition p on its leader: oldest and newest available offset.
OldestOf(p) == 100 * (p + 1)
NewestOf(p) == 100 * (p + 1) + 50

\* An OffsetResponseBlock, or the nil block GetBlock returns when it is missing.
NilBlock == [present |-> FALSE, Err |-> ErrNoError, Offsets |-> <<>>]
OffsetBlock(err, offs) == [present |-> TRUE, Err |-> err, Offsets |-> offs]

\* What a broker's response can hold for one partition it was asked about.
BrokerBlocks(first) ==
    { NilBlock,
      OffsetBlock(3, <<>>),
      OffsetBlock(ErrNoError, <<>>),
      OffsetBlock(ErrNoError, <<first>>) }

\* getOffsetResult: the first offset of the block, or an error.
getOffsetResult(block, partition) ==
    IF ~block.present
    THEN [val |-> 0, err |-> errorsNew("no data")]
    ELSE IF block.Err # ErrNoError
    THEN [val |-> 0, err |-> errorsWrapf(KError(block.Err), "fetch error")]
    ELSE IF Len(block.Offsets) < 1
    THEN [val |-> 0, err |-> errorsNew("no offset")]
    ELSE [val |-> block.Offsets[1], err |-> NilErr]

(* --------------------------- lazy connections -------------------------- *)
\* lazyKafkaClt keeping what a failed sarama.NewClient left as the client.
lazyKafkaClt_CachesFailure(cur, newClientOk) ==
    IF cur = "nil"
    THEN [clt |-> "open", called |-> TRUE,
          err |-> IF newClientOk THEN NilErr
                  ELSE errorsWrapf(extErr("net.Error", "dial"),
                                   "failed to create sarama.Client")]
    ELSE [clt |-> cur, err |-> NilErr, called |-> FALSE]

\* lazyKafkaClt: the client to use (the new value of a.kafkaClt), the error, and
\* whether sarama.NewClient was called.
lazyKafkaClt(cur, newClientOk) ==
    IF cur = "nil"
    THEN IF newClientOk
         THEN [clt |-> "open", err |-> NilErr, called |-> TRUE]
         ELSE [clt |-> "nil", called |-> TRUE,
               err |-> errorsWrapf(extErr("net.Error", "dial"), "failed to create sarama.Client")]
    ELSE [clt |-> cur, err |-> NilErr, called |-> FALSE]

\* Whether sarama.NewClient / zk.Connect succeeds, asked only when it is called.
ConnectOutcomes(cur) == IF cur = "nil" THEN BOOLEAN ELSE {TRUE}

(* --------------------------- GetGroupOffsets --------------------------- *)
\* The empty map.
EmptyMap == [x \in {} |-> <<>>]

\* Distribute keeping the position in the bucket instead of the original index.
RECURSIVE Distribute_BucketIndex(_, _, _)
Distribute_BucketIndex(parts, leaders, i) ==
    IF i = 0 THEN EmptyMap
    ELSE LET prev == Distribute_BucketIndex(parts, leaders, i - 1)
             b == leaders[i]
         IN IF b \in DOMAIN prev
            THEN [prev EXCEPT ![b] =
                    Append(@, [index |-> Len(@) + 1, partition |-> parts[i]])]
            ELSE [x \in DOMAIN prev \cup {b} |->
                    IF x = b THEN <<[index |-> 1, partition |-> parts[i]]>> ELSE prev[x]]

\* brokerToPartitions after the first i partitions were distributed
\* (indices are 1-based here, 0-based in the code).
RECURSIVE Distribute(_, _, _)
Distribute(parts, leaders, i) ==
    IF i = 0 THEN EmptyMap
    ELSE LET prev == Distribute(parts, leaders, i - 1)
             b == leaders[i]
             xp == [index |-> i, partition |-> parts[i]]
         IN IF b \in DOMAIN prev
            THEN [prev EXCEPT ![b] = Append(@, xp)]
            ELSE [x \in DOMAIN prev \cup {b} |-> IF x = b THEN <<xp>> ELSE prev[x]]

\* The first partition whose Leader lookup fails, 0 when none does.
FirstLeaderErr(leaders) ==
    IF \E i \in DOMAIN leaders : leaders[i] = 0
    THEN CHOOSE i \in DOMAIN leaders :
            leaders[i] = 0 /\ \A j \in DOMAIN leaders : leaders[j] = 0 => i <= j
    ELSE 0

\* actor.Spawn(actorID, &wg, f) for every bucket: each adds one to wg and starts
\* a goroutine that runs f and then takes one from wg.
SpawnAll(buckets) == Cardinality(DOMAIN buckets)
WgDone(n) == n - 1

\* A goroutine that has not failed.
NewTask == [pc |-> "oldest", k |-> 1, cause |-> "none"]

\* Values of the locals before and after a call.
NoFetch == [status |-> "none", blocks |-> EmptyMap]
NoRet == [offsets |-> NilSlice, err |-> NilErr]

\* return arr, err
Return(arr, err) ==
    /\ pc' = "returned"
    /\ ret' = [offsets |-> arr, err |-> err]

\* The locals of a call that returns before the fan-out.
NoFanOut ==
    /\ brokerToPartitions' = EmptyMap
    /\ offsets' = <<>>
    /\ writes' = <<>>
    /\ task' = EmptyMap
    /\ errorsCh' = <<>>
    /\ wg' = 0
    /\ fetchRes' = NoFetch

\* Lines 73-133: the client, the partition list, the leaders, one goroutine
\* per leader broker.
GetGroupOffsets_Start ==
    /\ pc = "idle"
    /\ \E newClientOk \in ConnectOutcomes(kafkaClt), partsOk \in BOOLEAN,
          parts \in InjSeqs(PartIds, MaxParts) :
         \E leaders \in [DOMAIN parts -> {0} \cup Brokers] :
           LET c == lazyKafkaClt(kafkaClt, newClientOk)
               bad == FirstLeaderErr(leaders)
               buckets == Distribute(parts, leaders, Len(parts))
           IN /\ kafkaClt' = c.clt
              /\ IF c.err # NilErr
                 THEN /\ Return(NilSlice, c.err)
                      /\ partitions' = <<>>
                      /\ NoFanOut
                 ELSE IF ~partsOk
                 THEN /\ Return(NilSlice, errorsWrapf(extErr("sarama.KError", "metadata"),
                                                      "failed to get topic partitions"))
                      /\ partitions' = <<>>
                      /\ NoFanOut
                 ELSE IF bad # 0
                 THEN /\ Return(NilSlice, errorsWrapf(extErr("sarama.KError", "leader"),
                                                      "failed to get partition leader"))
                      /\ partitions' = parts
                      /\ NoFanOut
                 ELSE /\ pc' = "wait"
                      /\ ret' = NoRet
                      /\ partitions' = parts
                      /\ brokerToPartitions' = buckets
                      /\ offsets' = MakeOffsets(Len(parts))
                      /\ writes' = [i \in DOMAIN parts |-> <<>>]
                      /\ task' = [b \in DOMAIN buckets |-> NewTask]
                      /\ errorsCh' = <<>>
                      /\ wg' = SpawnAll(buckets)
                      /\ fetchRes' = NoFetch
    /\ UNCHANGED <<committed, lastSet, consumerVars, connVars>>

\* ErrorsChCap of a channel with room for the error of one goroutine.
ErrorsChCap_Single == IF brokerToPartitions = EmptyMap THEN 0 ELSE 1

\* cap(errorsCh)
ErrorsChCap == Cardinality(DOMAIN brokerToPartitions)

\* The goroutine of broker b reports err on errorsCh and returns.
TaskFail(b, err, cause) ==
    /\ Len(errorsCh) < ErrorsChCap
    /\ errorsCh' = Append(errorsCh, err)
    /\ task' = [task EXCEPT ![b] = [pc |-> "done", k |-> @.k, cause |-> cause]]
    /\ wg' = WgDone(wg)
    /\ UNCHANGED <<offsets, writes>>

\* Lines 107-111: broker.GetAvailableOffsets(&reqOldest).
TaskOldest(b) ==
    /\ pc = "wait"
    /\ b \in DOMAIN task
    /\ task[b].pc = "oldest"
    /\ \E ok \in BOOLEAN :
         IF ok
         THEN /\ task' = [task EXCEPT ![b].pc = "newest"]
              /\ UNCHANGED <<errorsCh, wg, offsets, writes>>
         ELSE TaskFail(b, errorsWrapf(extErr("net.Error", "transport"),
                                      "failed to fetch oldest offset"), "transport")
    /\ UNCHANGED <<kafkaClt, consumerVars, connVars, committed, lastSet, pc, partitions,
                   brokerToPartitions, fetchRes, ret>>

\* Lines 112-116: broker.GetAvailableOffsets(&reqNewest).
TaskNewest(b) ==
    /\ pc = "wait"
    /\ b \in DOMAIN task
    /\ task[b].pc = "newest"
    /\ \E ok \in BOOLEAN :
         IF ok
         THEN /\ task' = [task EXCEPT ![b].pc = "extract"]
              /\ UNCHANGED <<errorsCh, wg, offsets, writes>>
         ELSE TaskFail(b, errorsWrapf(extErr("net.Error", "transport"),
                                      "failed to fetch newest offset"), "transport")
    /\ UNCHANGED <<kafkaClt, consumerVars, connVars, committed, lastSet, pc, partitions,
                   brokerToPartitions, fetchRes, ret>>

\* Why a block is unusable ("none" when it is usable), as the environment sees it.
BlockCause(block) ==
    IF ~block.present THEN "nodata"
    ELSE IF block.Err # ErrNoError THEN "errcode"
    ELSE IF block.Offsets = <<>> THEN "nooffset"
    ELSE "none"

\* WriteEntry with Begin and End taken from the wrong response.
WriteEntry_Swapped(offs, xp, begin, end) ==
    [offs EXCEPT ![xp.index] =
        [@ EXCEPT !.Partition = xp.partition, !.Begin = end, !.End = begin]]

\* Lines 128-130: the three writes into the shared array.
WriteEntry(offs, xp, begin, end) ==
    [offs EXCEPT ![xp.index] =
        [@ EXCEPT !.Partition = xp.partition, !.Begin = begin, !.End = end]]

\* Lines 117-131: one iteration of the loop over brokerPartitions. The blocks of
\* the two responses for the partition are fixed by the broker; each is read at
\* most once, here.
TaskExtract(b) ==
    /\ pc = "wait"
    /\ b \in DOMAIN task
    /\ task[b].pc = "extract"
    /\ LET bucket == brokerToPartitions[b]
           xp == bucket[task[b].k]
       IN \E blockOldest \in BrokerBlocks(OldestOf(xp.partition)),
             blockNewest \in BrokerBlocks(NewestOf(xp.partition)) :
            LET begin == getOffsetResult(blockOldest, xp.partition)
                end == getOffsetResult(blockNewest, xp.partition)
            IN IF begin.err # NilErr
               THEN TaskFail(b, errorsWrapf(begin.err, "failed to fetch oldest offset"),
                             BlockCause(blockOldest))
               ELSE IF end.err # NilErr
               THEN TaskFail(b, errorsWrapf(end.err, "failed to fetch newest offset"),
                             BlockCause(blockNewest))
               ELSE /\ offsets' = WriteEntry(offsets, xp, begin.val, end.val)
                    /\ writes' = [writes EXCEPT ![xp.index] = Append(@, b)]
                    /\ IF task[b].k = Len(bucket)
                       THEN /\ task' = [task EXCEPT ![b].pc = "done"]
                            /\ wg' = WgDone(wg)
                       ELSE /\ task' = [task EXCEPT ![b].k = @ + 1]
                            /\ wg' = wg
                    /\ UNCHANGED errorsCh
    /\ UNCHANGED <<kafkaClt, consumerVars, connVars, committed, lastSet, pc, partitions,
                   brokerToPartitions, fetchRes, ret>>

\* WaitDone when the caller does not wait.
WaitDone_NoWait(n) == TRUE

\* Line 134: wg.Wait() returns when the counter is zero.
WaitDone(n) == n = 0

\* JoinResult that finds no error in the channel.
JoinResult_Ignore(ch) == [ok |-> FALSE, err |-> NilErr]

\* JoinResult with the test of the channel off by one.
JoinResult_OffByOne(ch) ==
    IF Len(ch) > 1 THEN [ok |-> TRUE, err |-> Head(ch)] ELSE [ok |-> FALSE, err |-> NilErr]

\* Lines 134-140: wg.Wait(), close(errorsCh), the first reported error.
JoinResult(ch) ==
    IF Len(ch) > 0 THEN [ok |-> TRUE, err |-> Head(ch)] ELSE [ok |-> FALSE, err |-> NilErr]

GetGroupOffsets_Join ==
    /\ pc = "wait"
    /\ WaitDone(wg)
    /\ LET r == JoinResult(errorsCh)
       IN IF r.ok
          THEN Return(NilSlice, r.err)
          ELSE /\ pc' = "coordinator"
               /\ ret' = ret
    /\ UNCHANGED <<kafkaClt, consumerVars, connVars, committed, lastSet, partitions,
                   brokerToPartitions, offsets, writes, task, errorsCh, wg, fetchRes>>

\* The caller takes the returned values; the locals of the call are gone.
GetGroupOffsets_Done ==
    /\ pc = "returned"
    /\ pc' = "idle"
    /\ ret' = NoRet
    /\ partitions' = <<>>
    /\ NoFanOut
    /\ UNCHANGED <<kafkaClt, consumerVars, connVars, committed, lastSet>>

(* ----------------------- the group coordinator ------------------------- *)
\* What the coordinator holds for a partition nothing was committed for.
NoCommit == [Offset |-> -1, Metadata |-> ""]

\* An OffsetFetchResponseBlock, or the nil block GetBlock returns when it is missing.
NilFetchBlock == [present |-> FALSE, Offset |-> 0, Metadata |-> "", Err |-> ErrNoError]
FetchBlock(c) == [present |-> TRUE, Offset |-> c.Offset, Metadata |-> c.Metadata,
                  Err |-> ErrNoError]
FetchErrBlock(code) == [present |-> TRUE, Offset |-> -1, Metadata |-> "", Err |-> code]

\* What the coordinator's FetchOffset response can hold for partition p.
CoordinatorBlocks(p) == {NilFetchBlock, FetchBlock(committed[p]), FetchErrBlock(14)}

\* How a request to the coordinator ends: Coordinator(group) fails, the request
\* fails in transport, or a response arrives.
CoordinatorAnswers == {"nocoordinator", "transport", "response"}

\* StoreCommitted without line 161.
StoreCommitted_NoMetadata(offs, i, block) ==
    [offs EXCEPT ![i] = [@ EXCEPT !.Offset = block.Offset]]

\* Lines 160-161.
StoreCommitted(offs, i, block) ==
    [offs EXCEPT ![i] = [@ EXCEPT !.Offset = block.Offset, !.Metadata = block.Metadata]]

\* Lines 155-164: the loop over partitions, from index i on, and the final return.
RECURSIVE MergeCommitted(_, _, _, _)
MergeCommitted(offs, parts, blocks, i) ==
    IF i > Len(parts)
    THEN [offsets |-> Slice(offs), err |-> NilErr]
    ELSE LET block == blocks[parts[i]]
         IN IF ~block.present
            THEN [offsets |-> NilSlice,
                  err |-> errorsWrapf(NilErr, "offset block is missing")]
            ELSE MergeCommitted(StoreCommitted(offs, i, block), parts, blocks, i + 1)

\* Lines 143-164: Coordinator(group), FetchOffset, the merge.
GetGroupOffsets_Coordinator ==
    /\ pc = "coordinator"
    /\ \E answer \in CoordinatorAnswers :
         IF answer = "nocoordinator"
         THEN /\ fetchRes' = [status |-> "nocoordinator", blocks |-> EmptyMap]
              /\ Return(NilSlice, errorsWrapf(extErr("sarama.KError", "coordinator"),
                                              "failed to get coordinator"))
         ELSE IF answer = "transport"
         THEN /\ fetchRes' = [status |-> "transport", blocks |-> EmptyMap]
              /\ Return(NilSlice, errorsWrapf(extErr("net.Error", "transport"),
                                              "failed to fetch offsets"))
         ELSE \E blocks \in [Range(partitions) -> UNION {CoordinatorBlocks(p) : p \in PartIds}] :
                /\ \A p \in Range(partitions) : blocks[p] \in CoordinatorBlocks(p)
                /\ fetchRes' = [status |-> "response", blocks |-> blocks]
                /\ LET r == MergeCommitted(offsets, partitions, blocks, 1)
                   IN Return(r.offsets, r.err)
    /\ UNCHANGED <<kafkaClt, consumerVars, connVars, committed, lastSet, partitions,
                   brokerToPartitions, offsets, writes, task, errorsCh, wg>>

(* --------------------------- SetGroupOffsets --------------------------- *)
\* The metadata strings a caller commits.
Metas == {"chk1"}

\* The []PartitionOffset arguments of SetGroupOffsets.
Records ==
    UNION {[1..k -> [Partition : PartIds, Begin : {0}, End : {0},
                     Offset : 0..MaxOffset, Metadata : Metas]] : k \in 0..MaxRecs}

\* OffsetCommitRequest.AddBlock: the request holds one block per partition, the
\* block added last.
AddBlock(req, po) ==
    [p \in DOMAIN req \cup {po.Partition} |->
        IF p = po.Partition THEN [Offset |-> po.Offset, Metadata |-> po.Metadata]
        ELSE req[p]]

\* Lines 184-186: the request after the first i records were added.
RECURSIVE CommitRequest(_, _)
CommitRequest(recs, i) ==
    IF i = 0 THEN EmptyMap ELSE AddBlock(CommitRequest(recs, i - 1), recs[i])

\* The coordinator stores every block it answers ErrNoError for.
Commit(store, req, errs) ==
    [p \in PartIds |->
        IF p \in DOMAIN req /\ errs[p] = ErrNoError THEN req[p] ELSE store[p]]

\* The response of CommitOffset lists the partitions of the request in some
\* order, each with its code; sarama decodes the list into the map
\* res.Errors[topic]. The code of the first partition of the list that reports
\* a failure, ErrNoError when none does.
RECURSIVE FirstReported(_, _, _)
FirstReported(order, errs, i) ==
    IF i > Len(order) THEN ErrNoError
    ELSE IF errs[order[i]] # ErrNoError THEN errs[order[i]]
    ELSE FirstReported(order, errs, i + 1)

\* The non-success codes of a response.
ReportedCodes(errs) == {errs[p] : p \in DOMAIN errs} \ {ErrNoError}

\* CommitResults without the test of line 192.
CommitResults_IgnoreCodes(errs) == {NilErr}

\* Lines 191-196: the loop over the map res.Errors[topic] returns at the first
\* non-success code it meets; the entries of a map are visited in any order.
CommitResults(errs) ==
    IF \A p \in DOMAIN errs : errs[p] = ErrNoError
    THEN {NilErr}
    ELSE {errorsWrapf(KError(errs[p]), "failed to commit offset") :
            p \in {q \in DOMAIN errs : errs[q] # ErrNoError}}

\* A call of SetGroupOffsets for the record: its argument, how the coordinator
\* answered, the non-success codes of the response and the first of them in the
\* order of the response, and the error returned.
SetCall(recs, answer, codes, first, err) ==
    [called |-> TRUE, records |-> recs, answer |-> answer, codes |-> codes,
     first |-> first, err |-> err]
NoSetCall ==
    [called |-> FALSE, records |-> <<>>, answer |-> "none", codes |-> {},
     first |-> ErrNoError, err |-> NilErr]

\* Lines 169-197.
SetGroupOffsets ==
    /\ pc = "idle"
    /\ \E recs \in Records, newClientOk \in ConnectOutcomes(kafkaClt),
          answer \in CoordinatorAnswers :
         LET c == lazyKafkaClt(kafkaClt, newClientOk)
             req == CommitRequest(recs, Len(recs))
         IN /\ kafkaClt' = c.clt
            /\ IF c.err # NilErr
               THEN /\ lastSet' = SetCall(recs, "none", {}, ErrNoError, c.err)
                    /\ committed' = committed
               ELSE IF answer = "nocoordinator"
               THEN /\ lastSet' = SetCall(recs, answer, {}, ErrNoError,
                                          errorsWrapf(extErr("sarama.KError", "coordinator"),
                                                      "failed to get coordinator"))
                    /\ committed' = committed
               ELSE IF answer = "transport"
               THEN /\ lastSet' = SetCall(recs, answer, {}, ErrNoError,
                                          errorsWrapf(extErr("net.Error", "transport"),
                                                      "failed to commit offsets"))
                    /\ committed' = committed
               ELSE \E errs \in [DOMAIN req -> {ErrNoError} \cup ErrCodes],
                       order \in Perms(DOMAIN req) :
                      /\ committed' = Commit(committed, req, errs)
                      /\ \E err \in CommitResults(errs) :
                           lastSet' = SetCall(recs, answer, ReportedCodes(errs),
                                              FirstReported(order, errs, 1), err)
    /\ UNCHANGED <<consumerVars, connVars, pc, partitions, brokerToPartitions, offsets,
                   writes, task, errorsCh, wg, fetchRes, ret>>

(* ----------------------------- the tree store -------------------------- *)
\* The consumer groups and the client ids that own partitions.
Groups == {"g1", "g2"}
Clients == {"clientA", "clientB"}

\* The names a child of an ownership path can have, as sequences of characters:
\* "0", "1", "01", "x" and "4294967297" (2^32 + 1).
NamePool ==
    { <<"0">>, <<"1">>, <<"0", "1">>, <<"x">>,
      <<"4", "2", "9", "4", "9", "6", "7", "2", "9", "7">> }

\* The ownership node of one group for the topic: whether /consumers/<group>
\* exists, whether .../owners/<topic> exists, and each child's stored value.
Nodes ==
    { [reg |-> r, owners |-> FALSE, children |-> EmptyMap] : r \in BOOLEAN }
    \cup { [reg |-> TRUE, owners |-> TRUE, children |-> c] :
             c \in UNION {[N -> Clients] :
                            N \in {M \in SUBSET NamePool : Cardinality(M) <= MaxChildren}} }

\* zk.ErrNoNode
ErrNoNode == extErr("*errors.errorString", "zk: node does not exist")
\* Another error of the tree store.
ErrConnectionClosed == extErr("*errors.errorString", "zk: connection closed")

\* What the tree store can answer one scan of a node: Children fails (other than
\* with no-node), or lists the children in some order, and then the Get of the
\* child at getFailAt fails (0: none does).
TreeAnswers(node) ==
    { [childrenFail |-> TRUE, order |-> <<>>, getFailAt |-> 0] }
    \cup { [childrenFail |-> FALSE, order |-> o, getFailAt |-> f] :
             o \in Perms(DOMAIN node.children), f \in 0..Cardinality(DOMAIN node.children) }

\* zkConn.Children(consumedPartitionsPath)
Children(node, ans) ==
    IF ans.childrenFail THEN [names |-> <<>>, err |-> ErrConnectionClosed]
    ELSE IF ~node.owners THEN [names |-> <<>>, err |-> ErrNoNode]
    ELSE [names |-> ans.order, err |-> NilErr]

(* ---------------------- strconv.Atoi and int32(...) -------------------- *)
\* The value of a decimal digit, -1 for any other character.
DigitValue(c) ==
    CASE c = "0" -> 0 [] c = "1" -> 1 [] c = "2" -> 2 [] c = "3" -> 3 [] c = "4" -> 4
      [] c = "5" -> 5 [] c = "6" -> 6 [] c = "7" -> 7 [] c = "8" -> 8 [] c = "9" -> 9
      [] OTHER -> -1

\* A Go int is held in two limbs, hi * 2^16 + lo, with a sign: the values of
\* NamePool exceed the integers of the model checker, not those of an int.
Limb == 2 ^ 16

\* The digits of d from position i on, added to hi * 2^16 + lo.
RECURSIVE ParseDigits(_, _, _, _)
ParseDigits(d, i, hi, lo) ==
    IF i > Len(d) THEN [ok |-> TRUE, hi |-> hi, lo |-> lo]
    ELSE IF DigitValue(d[i]) < 0 THEN [ok |-> FALSE, hi |-> 0, lo |-> 0]
    ELSE LET t == lo * 10 + DigitValue(d[i])
         IN ParseDigits(d, i + 1, hi * 10 + t \div Limb, t % Limb)

\* strconv.Atoi on names shorter than 19 digits (none is out of the int range).
Atoi(name) ==
    LET signed == Len(name) > 0 /\ name[1] \in {"+", "-"}
        digits == IF signed THEN Tail(name) ELSE name
        r == ParseDigits(digits, 1, 0, 0)
        bad == [neg |-> FALSE, hi |-> 0, lo |-> 0,
                err |-> extErr("*strconv.NumError", "invalid syntax")]
    IN IF digits = <<>> \/ ~r.ok THEN bad
       ELSE [neg |-> signed /\ name[1] = "-", hi |-> r.hi, lo |-> r.lo, err |-> NilErr]

\* int32(partition): the low 32 bits of the int, read as a signed number.
Int32(n) ==
    LET uhi == n.hi % Limb
        ulo == n.lo
        nhi == IF ~n.neg THEN uhi
               ELSE IF ulo = 0 THEN (Limb - uhi) % Limb ELSE Limb - 1 - uhi
        nlo == IF ~n.neg \/ ulo = 0 THEN ulo ELSE Limb - ulo
    IN IF nhi >= Limb \div 2 THEN (nhi - Limb) * Limb + nlo ELSE nhi * Limb + nlo

(* -------------------------- sort.Sort(int32Slice) ---------------------- *)
\* int32Slice.Less
Less(a, b) == a < b

\* x put into the sorted sequence q.
RECURSIVE Insert(_, _)
Insert(q, x) ==
    IF q = <<>> THEN <<x>>
    ELSE IF Less(x, Head(q)) THEN <<x>> \o q
    ELSE <<Head(q)>> \o Insert(Tail(q), x)

\* sort.Sort(int32Slice(q)): q ordered by Less.
RECURSIVE SortInt32(_)
SortInt32(q) == IF q = <<>> THEN <<>> ELSE Insert(SortInt32(Tail(q)), Head(q))

(* --------------------------- GetTopicConsumers ------------------------- *)
\* A Go map: the nil map is distinct from an empty one.
NilMap == [isNil |-> TRUE, m |-> EmptyMap]
Map(m) == [isNil |-> FALSE, m |-> m]

\* lazyZKConn: the new value of a.zkConn, the error, and whether zk.Connect was
\* called.
lazyZKConn(cur, connectOk) ==
    IF cur = "nil"
    THEN IF connectOk
         THEN [conn |-> "open", err |-> NilErr, called |-> TRUE]
         ELSE [conn |-> "nil", called |-> TRUE,
               err |-> errorsWrapf(extErr("net.Error", "dial"), "failed to create zk.Conn")]
    ELSE [conn |-> cur, err |-> NilErr, called |-> FALSE]

\* Line 228: consumers[clientID] = append(consumers[clientID], int32(partition))
AppendOwner(consumers, clientID, partition) ==
    [c \in DOMAIN consumers \cup {clientID} |->
        IF c = clientID
        THEN (IF c \in DOMAIN consumers THEN consumers[c] ELSE <<>>) \o <<partition>>
        ELSE consumers[c]]

\* Lines 217-229: the loop over partitionNodes, from index i on.
RECURSIVE CollectOwners(_, _, _, _, _)
CollectOwners(consumers, names, node, getFailAt, i) ==
    IF i > Len(names) THEN [consumers |-> Map(consumers), err |-> NilErr]
    ELSE LET partition == Atoi(names[i])
         IN IF partition.err # NilErr
            THEN [consumers |-> NilMap,
                  err |-> errorsWrapf(partition.err, "invalid partition id")]
            ELSE IF getFailAt = i
            THEN [consumers |-> NilMap,
                  err |-> errorsWrapf(ErrConnectionClosed, "failed to fetch partition owner")]
            ELSE CollectOwners(AppendOwner(consumers, node.children[names[i]],
                                           Int32(partition)),
                               names, node, getFailAt, i + 1)

\* Lines 231-233.
SortOwners(consumers) == [c \in DOMAIN consumers |-> SortInt32(consumers[c])]

\* ErrInvalidParam(err): the conversion of an error to the interface type
\* ErrInvalidParam keeps the value and its dynamic type.
ErrInvalidParam(err) == err

\* Lines 208-235, with the connection at hand.
ScanGroupTopic(node, ans) ==
    LET ch == Children(node, ans)
    IN IF ch.err # NilErr
       THEN IF ch.err = ErrNoNode
            THEN [consumers |-> NilMap,
                  err |-> ErrInvalidParam(errorsNew("either group or topic is incorrect"))]
            ELSE [consumers |-> NilMap,
                  err |-> errorsWrapf(ch.err, "failed to fetch partition owners data")]
       ELSE LET r == CollectOwners(EmptyMap, ch.names, node, ans.getFailAt, 1)
            IN IF r.err # NilErr THEN r
               ELSE [consumers |-> Map(SortOwners(r.consumers.m)), err |-> NilErr]

\* What the tree store did in a scan, for the record: whether Children of the
\* ownership path reported no-such-node.
ReportedNoNode(node, ans) == ~ans.childrenFail /\ ~node.owners

NoCall == [op |-> "none", group |-> "", noNode |-> FALSE, groups |-> <<>>,
           scans |-> EmptyMap]
NoCRet == [consumers |-> NilMap, all |-> NilMap, err |-> NilErr]

\* Lines 201-236.
GetTopicConsumers(group) ==
    /\ cpc = "idle"
    /\ \E connectOk \in ConnectOutcomes(zkConn) :
         LET c == lazyZKConn(zkConn, connectOk)
         IN /\ zkConn' = c.conn
            /\ IF c.err # NilErr
               THEN /\ cret' = [NoCRet EXCEPT !.err = c.err]
                    /\ call' = [NoCall EXCEPT !.op = "GetTopicConsumers", !.group = group]
               ELSE \E ans \in TreeAnswers(tree[group]) :
                      LET r == ScanGroupTopic(tree[group], ans)
                      IN /\ cret' = [NoCRet EXCEPT !.consumers = r.consumers, !.err = r.err]
                         /\ call' = [NoCall EXCEPT !.op = "GetTopicConsumers",
                                                   !.group = group,
                                                   !.noNode = ReportedNoNode(tree[group], ans)]
    /\ cpc' = "returned"
    /\ UNCHANGED <<tree, offsetVars, connVars>>

(* ------------------------- GetAllTopicConsumers ------------------------ *)
\* The methods of the interface type ErrInvalidParam (its underlying type is
\* error) and those of the dynamic types of the error values.
InterfaceMethods == {"Error"}
MethodSet(dyn) == IF dyn = "nil" THEN {} ELSE {"Error"}

\* Line 256: _, ok := err.(ErrInvalidParam). An assertion to an interface type
\* holds when the dynamic type of the value implements the interface.
IsErrInvalidParam(err) == InterfaceMethods \subseteq MethodSet(err.dyn)

\* KeepGroup without the test of line 261.
KeepGroup_Always(groupConsumers) == TRUE

\* Line 261.
KeepGroup(groupConsumers) == Cardinality(DOMAIN groupConsumers.m) > 0

\* Lines 253-265: the loop over groups, from index i on; scans[g] is what
\* GetTopicConsumers(g, topic) returns.
RECURSIVE ScanAllGroups(_, _, _, _)
ScanAllGroups(consumers, groups, scans, i) ==
    IF i > Len(groups) THEN [all |-> Map(consumers), err |-> NilErr]
    ELSE LET group == groups[i]
             r == scans[group].res
         IN IF r.err # NilErr
            THEN IF IsErrInvalidParam(r.err)
                 THEN ScanAllGroups(consumers, groups, scans, i + 1)
                 ELSE [all |-> NilMap,
                       err |-> errorsWrapf(r.err, "failed to fetch group data")]
            ELSE IF KeepGroup(r.consumers)
            THEN ScanAllGroups([g \in DOMAIN consumers \cup {group} |->
                                   IF g = group THEN r.consumers ELSE consumers[g]],
                               groups, scans, i + 1)
            ELSE ScanAllGroups(consumers, groups, scans, i + 1)

\* The registered groups.
Registered == {g \in Groups : tree[g].reg}

\* What GetTopicConsumers(g, topic) can return for a group, with what the tree
\* store reported.
ScansOf(g) ==
    { [res |-> ScanGroupTopic(tree[g], ans), noNode |-> ReportedNoNode(tree[g], ans)] :
        ans \in TreeAnswers(tree[g]) }

\* One such return for every group of G.
RECURSIVE ScansOfAll(_)
ScansOfAll(G) ==
    IF G = {} THEN {EmptyMap}
    ELSE LET g == CHOOSE x \in G : TRUE
         IN { [x \in G |-> IF x = g THEN sc ELSE rest[x]] :
                sc \in ScansOf(g), rest \in ScansOfAll(G \ {g}) }

GroupScans == ScansOfAll(Registered)

\* Lines 241-266. Inside the loop lazyZKConn finds the connection made at line 242.
GetAllTopicConsumers ==
    /\ cpc = "idle"
    /\ \E connectOk \in ConnectOutcomes(zkConn), groupsOk \in BOOLEAN :
         LET c == lazyZKConn(zkConn, connectOk)
         IN /\ zkConn' = c.conn
            /\ IF c.err # NilErr
               THEN /\ cret' = [NoCRet EXCEPT !.err = c.err]
                    /\ call' = [NoCall EXCEPT !.op = "GetAllTopicConsumers"]
               ELSE IF ~groupsOk
               THEN /\ cret' = [NoCRet EXCEPT !.err =
                                   errorsWrapf(ErrConnectionClosed,
                                               "failed to fetch consumer groups")]
                    /\ call' = [NoCall EXCEPT !.op = "GetAllTopicConsumers"]
               ELSE \E groups \in Perms(Registered), scans \in GroupScans :
                      LET r == ScanAllGroups(EmptyMap, groups, scans, 1)
                      IN /\ cret' = [NoCRet EXCEPT !.all = r.all, !.err = r.err]
                         /\ call' = [NoCall EXCEPT !.op = "GetAllTopicConsumers",
                                                   !.groups = groups, !.scans = scans]
    /\ cpc' = "returned"
    /\ UNCHANGED <<tree, offsetVars, connVars>>

\* The caller takes the returned values.
Scan_Done ==
    /\ cpc = "returned"
    /\ cpc' = "idle"
    /\ call' = NoCall
    /\ cret' = NoCRet
    /\ UNCHANGED <<zkConn, tree, offsetVars, connVars>>

(* ------------------- concurrent callers and Stop ----------------------- *)
\* The goroutines that call the admin instance at the same time, and the number
\* of operations they call altogether.
MaxCallers == 2
MaxCalls == 3
Callers == 1..MaxCallers

\* The public operations, by the connection each needs.
KafkaOps == {"GetGroupOffsets", "SetGroupOffsets"}
ZKOps == {"GetTopicConsumers", "GetAllTopicConsumers"}
Kinds == {"kafka", "zk"}
KindOf(op) == IF op \in KafkaOps THEN "kafka" ELSE "zk"

\* a.kafkaClt or a.zkConn
Field(kind) == IF kind = "kafka" THEN kafkaClt ELSE zkConn

\* For one connection: whether an operation that needs it was called, how often
\* its constructor was called and how often it succeeded, and how often Close
\* was called on the connection the field holds.
NoConnLog == [wanted |-> FALSE, attempts |-> 0, made |-> 0, closes |-> 0]

\* What a lazy call handed to its caller: the connection and the error, whether
\* the constructor was called, the value of the field at return, which of the
\* connections made it is, and whether Close had been called on it.
NoGot == [clt |-> "nil", err |-> NilErr, called |-> FALSE, field |-> "nil",
          id |-> 0, closed |-> FALSE]

\* A caller outside any operation.
Idle == [op |-> "none", pc |-> "idle", seen |-> "nil", got |-> NoGot,
         scanned |-> 0, sinceClose |-> FALSE, res |-> "none"]

\* A caller enters a public operation; each starts with its lazy call.
Call(c, op) ==
    /\ proc[c].pc = "idle"
    /\ calls < MaxCalls
    /\ calls' = calls + 1
    /\ proc' = [proc EXCEPT ![c] = [Idle EXCEPT !.op = op, !.pc = "lock",
                                       !.sinceClose = conns[KindOf(op)].closes > 0]]
    /\ conns' = [conns EXCEPT ![KindOf(op)].wanted = TRUE]
    /\ UNCHANGED <<mtx, offsetVars, consumerVars>>

\* A caller enters Stop.
CallStop(c) ==
    /\ proc[c].pc = "idle"
    /\ calls < MaxCalls
    /\ calls' = calls + 1
    /\ proc' = [proc EXCEPT ![c] = [Idle EXCEPT !.op = "Stop", !.pc = "lock"]]
    /\ UNCHANGED <<mtx, conns, offsetVars, consumerVars>>

\* MtxFree when Lock does not wait.
MtxFree_NoLock(m) == TRUE

\* a.mtx.Lock() returns when the mutex is unlocked.
MtxFree(m) == m = 0

\* Lines 46, 269, 281: a.mtx.Lock().
Lock(c) ==
    /\ proc[c].pc = "lock"
    /\ MtxFree(mtx)
    /\ mtx' = c
    /\ proc' = [proc EXCEPT ![c].pc = IF proc[c].op = "Stop" THEN "closeKafka" ELSE "check"]
    /\ UNCHANGED <<conns, calls, offsetVars, consumerVars>>

\* Lines 271, 283: the read of the field that is compared with nil.
LazyCheck(c) ==
    /\ proc[c].pc = "check"
    /\ proc' = [proc EXCEPT ![c].pc = "create", ![c].seen = Field(KindOf(proc[c].op))]
    /\ UNCHANGED <<mtx, conns, calls, offsetVars, consumerVars>>

\* lazyKafkaClt or lazyZKConn, by the connection asked for.
Lazy(kind, cur, ok) ==
    IF kind = "kafka" THEN lazyKafkaClt(cur, ok)
    ELSE LET z == lazyZKConn(cur, ok)
         IN [clt |-> z.conn, err |-> z.err, called |-> z.called]

\* Lines 272-277, 284-289: the constructor is called when the field was seen
\* nil, and its result assigned to the field; the field is returned unless the
\* constructor failed; the deferred Unlock runs.
LazyReturn(c) ==
    /\ proc[c].pc = "create"
    /\ LET kind == KindOf(proc[c].op)
           log == conns[kind]
       IN \E ok \in ConnectOutcomes(proc[c].seen) :
            LET r == Lazy(kind, proc[c].seen, ok)
                made == r.called /\ r.clt # "nil"
                field == IF r.called THEN r.clt ELSE Field(kind)
                handed == IF r.err # NilErr THEN "nil" ELSE field
                newlog == [log EXCEPT !.attempts = @ + (IF r.called THEN 1 ELSE 0),
                                      !.made = @ + (IF made THEN 1 ELSE 0),
                                      !.closes = IF made THEN 0 ELSE @]
            IN /\ kafkaClt' = IF kind = "kafka" THEN field ELSE kafkaClt
               /\ zkConn' = IF kind = "zk" THEN field ELSE zkConn
               /\ conns' = [conns EXCEPT ![kind] = newlog]
               /\ proc' = [proc EXCEPT ![c].pc = "use",
                              ![c].got = [clt |-> handed, err |-> r.err,
                                          called |-> r.called, field |-> field,
                                          id |-> IF handed = "nil" THEN 0 ELSE newlog.made,
                                          closed |-> handed # "nil" /\ newlog.closes > 0]]
    /\ mtx' = 0
    /\ UNCHANGED <<calls, committed, lastSet, pc, partitions, brokerToPartitions,
                   offsets, writes, task, errorsCh, wg, fetchRes, ret, tree, cpc, call,
                   cret>>

\* How the rest of an operation can end with the connection it was handed: a
\* closed connection fails every request.
Outcomes(got) == IF got.closed THEN {"error"} ELSE {"ok", "error"}

\* The rest of the operation. An operation whose lazy call failed returns that
\* error (lines 74-76, 171-173, 203-205, 243-245). GetAllTopicConsumers calls
\* GetTopicConsumers for every group, each of which makes its own lazy call, and
\* goes on to the next group whatever error it returns (line 256).
Use(c) ==
    /\ proc[c].pc = "use"
    /\ \/ /\ proc[c].op = "GetAllTopicConsumers"
          /\ proc[c].got.err = NilErr \/ proc[c].scanned > 0
          /\ proc[c].scanned < Cardinality(Groups)
          /\ proc' = [proc EXCEPT ![c].pc = "lock", ![c].scanned = @ + 1]
       \/ /\ proc[c].scanned = 0
          /\ proc[c].got.err # NilErr
          /\ proc' = [proc EXCEPT ![c].pc = "returned", ![c].res = "error"]
       \/ /\ proc[c].got.err = NilErr
          /\ \E res \in Outcomes(proc[c].got) :
               proc' = [proc EXCEPT ![c].pc = "returned", ![c].res = res]
    /\ UNCHANGED <<mtx, conns, calls, offsetVars, consumerVars>>

\* The caller takes the result.
Op_Done(c) ==
    /\ proc[c].pc = "returned"
    /\ proc' = [proc EXCEPT ![c] = Idle]
    /\ UNCHANGED <<mtx, conns, calls, offsetVars, consumerVars>>

\* Close is called on the connection a field holds, when it holds one.
Close(field, log) == IF field # "nil" THEN [log EXCEPT !.closes = @ + 1] ELSE log

\* Lines 48-50.
StopKafka(c) ==
    /\ proc[c].pc = "closeKafka"
    /\ conns' = [conns EXCEPT !["kafka"] = Close(kafkaClt, @)]
    /\ proc' = [proc EXCEPT ![c].pc = "closeZK"]
    /\ UNCHANGED <<mtx, calls, offsetVars, consumerVars>>

\* Lines 51-54, with the deferred Unlock.
StopZK(c) ==
    /\ proc[c].pc = "closeZK"
    /\ conns' = [conns EXCEPT !["zk"] = Close(zkConn, @)]
    /\ proc' = [proc EXCEPT ![c].pc = "returned", ![c].res = "ok"]
    /\ mtx' = 0
    /\ UNCHANGED <<calls, offsetVars, consumerVars>>

(* ------------------------------ the system ----------------------------- *)
\* A tree store without consumer groups.
NoGroups == [g \in Groups |-> [reg |-> FALSE, owners |-> FALSE, children |-> EmptyMap]]

\* The admin instance after Spawn, with no call in progress.
Spawned ==
    /\ kafkaClt = "nil"
    /\ zkConn = "nil"
    /\ committed = [p \in PartIds |-> NoCommit]
    /\ lastSet = NoSetCall
    /\ pc = "idle"
    /\ partitions = <<>>
    /\ brokerToPartitions = EmptyMap
    /\ offsets = <<>>
    /\ writes = <<>>
    /\ task = EmptyMap
    /\ errorsCh = <<>>
    /\ wg = 0
    /\ fetchRes = NoFetch
    /\ ret = NoRet
    /\ cpc = "idle"
    /\ call = NoCall
    /\ cret = NoCRet
    /\ mtx = 0
    /\ proc = [c \in Callers |-> Idle]
    /\ conns = [kind \in Kinds |-> NoConnLog]
    /\ calls = 0

Init == Spawned /\ tree = NoGroups

\* One caller of GetGroupOffsets and the goroutines it spawns.
NextOffsets ==
    \/ GetGroupOffsets_Start
    \/ \E b \in Brokers : TaskOldest(b)
    \/ \E b \in Brokers : TaskNewest(b)
    \/ \E b \in Brokers : TaskExtract(b)
    \/ GetGroupOffsets_Join
    \/ GetGroupOffsets_Coordinator
    \/ GetGroupOffsets_Done

SpecOffsets == Init /\ [][NextOffsets]_vars

\* Every goroutine that can take a step takes one (its broker requests return),
\* and so does the caller once the join can complete (the coordinator's
\* requests return).
FairOffsets ==
    /\ \A b \in Brokers : WF_vars(TaskOldest(b) \/ TaskNewest(b) \/ TaskExtract(b))
    /\ WF_vars(GetGroupOffsets_Join \/ GetGroupOffsets_Coordinator)

SpecOffsetsFair == SpecOffsets /\ FairOffsets

\* One caller of SetGroupOffsets and GetGroupOffsets.
NextCommit ==
    \/ SetGroupOffsets
    \/ NextOffsets

SpecCommit == Init /\ [][NextCommit]_vars

\* One caller of SetGroupOffsets.
NextSet == SetGroupOffsets

SpecSet == Init /\ [][NextSet]_vars

\* One caller of GetTopicConsumers and GetAllTopicConsumers.
NextConsumers ==
    \/ \E g \in Groups : GetTopicConsumers(g)
    \/ GetAllTopicConsumers
    \/ Scan_Done

\* The tree store holds any ownership data.
InitConsumers == Spawned /\ tree \in [Groups -> Nodes]

SpecConsumers == InitConsumers /\ [][NextConsumers]_vars

\* Concurrent callers of the public operations and of Stop.
NextConn ==
    \/ \E c \in Callers, op \in KafkaOps \cup ZKOps : Call(c, op)
    \/ \E c \in Callers : CallStop(c)
    \/ \E c \in Callers : Lock(c)
    \/ \E c \in Callers : LazyCheck(c)
    \/ \E c \in Callers : LazyReturn(c)
    \/ \E c \in Callers : Use(c)
    \/ \E c \in Callers : Op_Done(c)
    \/ \E c \in Callers : StopKafka(c)
    \/ \E c \in Callers : StopZK(c)

SpecConn == Init /\ [][NextConn]_vars

(* ------------------------------- claims -------------------------------- *)
\* GetGroupOffsets returned to its caller.
Returned == pc = "returned"

\* GetGroupOffsets returned without an error.
Succeeded == Returned /\ ret.err = NilErr

\* The goroutines whose offset query failed.
FailedTasks == {b \in DOMAIN task : task[b].cause # "none"}

\* The call returned an error and no array.
FailedCall == ret.err # NilErr /\ ret.offsets.isNil

\* C1: a successful GetGroupOffsets returns an array as long as the partition
\* list, and its i-th element carries the i-th partition of the list, whatever
\* the order in which the goroutines ran.
C1_PositionalResult ==
    Succeeded =>
        /\ Len(ret.offsets.elems) = Len(partitions)
        /\ \A i \in DOMAIN partitions : ret.offsets.elems[i].Partition = partitions[i]

\* C2: when the offset query of at least one leader broker failed, the call does
\* not go on to the coordinator and returns a non-nil error and a nil array.
C2_BrokerFailureFailsCall ==
    (FailedTasks # {} /\ pc \in {"coordinator", "returned"}) => (Returned /\ FailedCall)

\* C2 happens: a call returned after one goroutine failed while another one
\* had finished and written the entries of its partitions.
C2_Witness ==
    /\ Returned
    /\ \E b1, b2 \in DOMAIN task :
         /\ task[b1].cause # "none"
         /\ task[b2].cause = "none"
         /\ task[b2].pc = "done"
         /\ \A k \in DOMAIN brokerToPartitions[b2] :
              offsets[brokerToPartitions[b2][k].index].End
                  = NewestOf(brokerToPartitions[b2][k].partition)

\* The coordinator answered, and its response lacks the block of a partition.
BlockMissing ==
    /\ fetchRes.status = "response"
    /\ \E p \in Range(partitions) : ~fetchRes.blocks[p].present

\* C3: when the FetchOffset response lacks the block of a requested partition,
\* GetGroupOffsets returns a non-nil error.
C3_MissingBlockIsError == (Returned /\ BlockMissing) => ret.err # NilErr

\* The coordinator answered with every block, one of them with an error code.
BlockWithErrorCode ==
    /\ fetchRes.status = "response"
    /\ \A p \in Range(partitions) : fetchRes.blocks[p].present
    /\ \E p \in Range(partitions) : fetchRes.blocks[p].Err # ErrNoError

\* C10: a per-partition error code is fatal in both halves of GetGroupOffsets:
\* in a broker's offset response and in the coordinator's FetchOffset response.
C10_ErrorCodeIsFatal ==
    Returned =>
        /\ (\E b \in DOMAIN task : task[b].cause = "errcode") => FailedCall
        /\ BlockWithErrorCode => FailedCall

\* The last record of recs for partition p is recs[k].
LastRecordFor(recs, k) ==
    \A j \in DOMAIN recs : recs[j].Partition = recs[k].Partition => j <= k

\* The coordinator answered the fetch with what it stores, for every partition.
FaithfulFetch ==
    /\ fetchRes.status = "response"
    /\ \A p \in Range(partitions) :
         fetchRes.blocks[p].present /\ fetchRes.blocks[p].Err = ErrNoError

\* A SetGroupOffsets succeeded, no commit followed it, and a GetGroupOffsets
\* that the coordinator answered faithfully returned an array.
RoundTripDone ==
    /\ Succeeded
    /\ ~ret.offsets.isNil
    /\ FaithfulFetch
    /\ lastSet.called
    /\ lastSet.err = NilErr

ScanReturned(op) == cpc = "returned" /\ call.op = op

\* C4: when the scan of a group fails with an error other than the no-such-node
\* of its ownership path, GetAllTopicConsumers returns an error and a nil map.
C4_ScanAbortsOnFailure ==
    (ScanReturned("GetAllTopicConsumers")
     /\ \E i \in DOMAIN call.groups :
          /\ call.scans[call.groups[i]].res.err # NilErr
          /\ ~call.scans[call.groups[i]].noNode)
    => (cret.err # NilErr /\ cret.all.isNil)

\* C5: the error GetTopicConsumers returns passes the kind test of
\* GetAllTopicConsumers exactly when Children of the ownership path reported
\* no-such-node.
C5_NotFoundKind ==
    ScanReturned("GetTopicConsumers") => (IsErrInvalidParam(cret.err) <=> call.noNode)

\* C6: every partition list of a map GetTopicConsumers returns is strictly
\* ascending.
C6_StrictlyAscending ==
    (ScanReturned("GetTopicConsumers") /\ cret.err = NilErr) =>
        \A c \in DOMAIN cret.consumers.m :
            \A i \in 1..(Len(cret.consumers.m[c]) - 1) :
                cret.consumers.m[c][i] < cret.consumers.m[c][i + 1]

\* The partition a child name stands for.
PartitionNamed(name) == Int32(Atoi(name))

\* C7: the map GetTopicConsumers returns is the inversion of the ownership node:
\* partition p is listed for client c exactly when a child named p holds c, every
\* child partition is listed for exactly one client, and no list is empty.
C7_Inversion ==
    (ScanReturned("GetTopicConsumers") /\ cret.err = NilErr) =>
        LET m == cret.consumers.m
            children == tree[call.group].children
        IN /\ \A c \in Clients : \A n \in NamePool :
                (c \in DOMAIN m /\ PartitionNamed(n) \in Range(m[c]))
                <=> \E n2 \in DOMAIN children :
                       PartitionNamed(n2) = PartitionNamed(n) /\ children[n2] = c
           /\ \A n \in DOMAIN children :
                Cardinality({c \in DOMAIN m : PartitionNamed(n) \in Range(m[c])}) = 1
           /\ \A c \in DOMAIN m : m[c] # <<>>

\* C8: the map a successful GetAllTopicConsumers returns holds group g exactly
\* when g is registered and its scan succeeded with a non-empty map; it holds
\* that map for g; a group whose scan reported no-such-node is left out.
C8_AllConsumers ==
    (ScanReturned("GetAllTopicConsumers") /\ cret.err = NilErr) =>
        \A g \in Groups :
            /\ g \in DOMAIN cret.all.m
                 <=> /\ g \in Registered
                     /\ call.scans[g].res.err = NilErr
                     /\ DOMAIN call.scans[g].res.consumers.m # {}
            /\ g \in DOMAIN cret.all.m =>
                 /\ cret.all.m[g] = call.scans[g].res.consumers
                 /\ DOMAIN cret.all.m[g].m # {}
            /\ (g \in Registered /\ call.scans[g].noNode) => g \notin DOMAIN cret.all.m

\* C8 happens: a scan of two registered groups returned one of them and left
\* out the other, whose ownership path has no children.
C8_Witness ==
    /\ ScanReturned("GetAllTopicConsumers")
    /\ cret.err = NilErr
    /\ \E g, h \in Registered :
         /\ g \in DOMAIN cret.all.m
         /\ h \notin DOMAIN cret.all.m
         /\ call.scans[h].res.err = NilErr

\* SetGroupOffsets returned after the coordinator answered the commit request.
CommitAnswered == lastSet.called /\ lastSet.answer = "response"

\* SetGroupOffsets succeeds only when the request succeeded and no partition
\* reports a non-success code.
SuccessOnlyWhenClean ==
    (lastSet.called /\ lastSet.err = NilErr) => (CommitAnswered /\ lastSet.codes = {})

\* C11 as claimed: when the commit response reports a non-success code,
\* SetGroupOffsets returns the code of the first partition of the response that
\* reports one; it succeeds only when the request succeeded and no partition
\* reports one.
C11_FirstInResponseOrder ==
    /\ (CommitAnswered /\ lastSet.codes # {}) =>
          /\ lastSet.err # NilErr
          /\ lastSet.err.cause = KError(lastSet.first).cause
    /\ SuccessOnlyWhenClean

\* C11 as amended: when the commit response reports a non-success code,
\* SetGroupOffsets returns the code of one of the partitions that report one;
\* it succeeds only when the request succeeded and no partition reports one.
C11_SomeReportedCode ==
    /\ (CommitAnswered /\ lastSet.codes # {}) =>
          /\ lastSet.err # NilErr
          /\ \E code \in lastSet.codes : lastSet.err.cause = KError(code).cause
    /\ SuccessOnlyWhenClean

\* C11 happens: two partitions report different codes, and the call returns the
\* code of the one that is not the first of the response.
C11_Witness ==
    /\ CommitAnswered
    /\ Cardinality(lastSet.codes) = 2
    /\ lastSet.err.cause # KError(lastSet.first).cause

\* The caller holds a connection that a lazy call handed to it.
Handed(c) == proc[c].got.clt # "nil"

\* The lazy call of the caller's operation returned.
LazyReturned(c) == proc[c].op # "Stop" /\ proc[c].pc \in {"use", "returned"}

\* C12: Stop closes every connection that was created exactly once: a repeated
\* Stop does not close a closed connection again, and a connection that was
\* never created is never closed.
C12_ClosedOnce ==
    \A kind \in Kinds :
        conns[kind].closes <= (IF conns[kind].made > 0 THEN 1 ELSE 0)

\* C13: under any interleaving of concurrent operations at most one cluster
\* client and at most one tree-store connection are ever created, every caller
\* that is handed a connection is handed that one, and no connection is created
\* before an operation that needs it was called.
C13_OneConnection ==
    /\ \A kind \in Kinds :
         /\ conns[kind].made <= 1
         /\ conns[kind].made > 0 => conns[kind].wanted
    /\ \A c, d \in Callers :
         (Handed(c) /\ Handed(d) /\ KindOf(proc[c].op) = KindOf(proc[d].op))
         => (proc[c].got.id = proc[d].got.id /\ proc[c].got.id = 1)

\* C13 happens: two callers in operations of the same kind at the same time
\* hold the same connection, which the lazy call of one of them created while
\* the other one found it.
C13_Witness ==
    \E c, d \in Callers :
        /\ c # d
        /\ proc[c].pc = "use" /\ proc[d].pc = "use"
        /\ KindOf(proc[c].op) = KindOf(proc[d].op)
        /\ Handed(c) /\ Handed(d)
        /\ proc[c].got.called /\ ~proc[d].got.called

\* C14: when the constructor of a connection fails, the lazy call hands no
\* connection, the field stays nil and the operation returns an error; a lazy
\* call that finds the field nil calls the constructor, and a field is non-nil
\* only after its constructor succeeded.
C14_FailureNotCached ==
    /\ \A c \in Callers :
         LazyReturned(c) =>
            /\ (proc[c].got.called /\ proc[c].got.err # NilErr) =>
                  /\ proc[c].got.field = "nil"
                  /\ proc[c].got.clt = "nil"
                  /\ proc[c].pc = "returned" => proc[c].res = "error"
            /\ proc[c].seen = "nil" => proc[c].got.called
    /\ \A kind \in Kinds : Field(kind) # "nil" => conns[kind].made > 0

\* C14 happens: an operation returned after the constructor succeeded in its
\* lazy call, the second attempt after a failed one.
C14_Witness ==
    \E c \in Callers :
        /\ proc[c].pc = "returned"
        /\ proc[c].op \in KafkaOps
        /\ proc[c].got.called
        /\ proc[c].got.err = NilErr
        /\ conns["kafka"].attempts = 2
        /\ conns["kafka"].made = 1

\* C20: an operation called after Stop closed a connection is not handed that
\* closed connection by its lazy call.
C20_NeverHandedClosed ==
    \A c \in Callers :
        (LazyReturned(c) /\ proc[c].sinceClose /\ Handed(c)) => ~proc[c].got.closed

\* GetGroupOffsets returned an array.
ReturnedArray == Succeeded /\ ~ret.offsets.isNil

\* C15: every element of the array a successful GetGroupOffsets returns holds
\* in Begin and End the first offset of the oldest-offset and of the
\* newest-offset block the leader returned for the element's partition, however
\* the partitions are grouped by broker and in whatever order the goroutines ran.
C15_RangeOfLeader ==
    ReturnedArray =>
        \A i \in DOMAIN ret.offsets.elems :
            /\ ret.offsets.elems[i].Begin = OldestOf(partitions[i])
            /\ ret.offsets.elems[i].End = NewestOf(partitions[i])

\* C15 happens: an array returned for the partition list 1, 0, the two
\* partitions led by different brokers.
C15_Witness ==
    /\ ReturnedArray
    /\ partitions = <<1, 0>>
    /\ Cardinality(DOMAIN brokerToPartitions) = 2
    /\ ret.offsets.elems[1].Begin = OldestOf(1)
    /\ ret.offsets.elems[2].End = NewestOf(0)

\* The goroutines whose bucket holds index i, and the places it holds in them.
BucketsOf(i) ==
    {b \in DOMAIN brokerToPartitions :
        \E k \in DOMAIN brokerToPartitions[b] : brokerToPartitions[b][k].index = i}
PlacesOf(i) ==
    {<<b, k>> \in Brokers \X (1..MaxParts) :
        /\ b \in DOMAIN brokerToPartitions
        /\ k \in DOMAIN brokerToPartitions[b]
        /\ brokerToPartitions[b][k].index = i}

\* C16: every index of the result array is in the bucket of exactly one
\* goroutine, once; only that goroutine writes the index, and at most once.
C16_DisjointWrites ==
    \A i \in DOMAIN offsets :
        /\ Cardinality(BucketsOf(i)) = 1
        /\ Cardinality(PlacesOf(i)) = 1
        /\ Len(writes[i]) <= 1
        /\ Range(writes[i]) \subseteq BucketsOf(i)

\* C16 happens: two goroutines each wrote the entry of the partition they lead
\* and the join has not completed.
C16_Witness ==
    /\ pc = "wait"
    /\ Len(offsets) = 2
    /\ writes[1] # <<>> /\ writes[2] # <<>>
    /\ writes[1] # writes[2]

\* The goroutines that have not ended.
Running == {b \in DOMAIN task : task[b].pc # "done"}

\* C17: the channel holds one error for every goroutine that failed and none
\* else, and however many failed there is room in it for an error of every
\* goroutine still running: no send blocks.
C17_ErrorChannelHasRoom ==
    /\ Len(errorsCh) = Cardinality(FailedTasks)
    /\ Len(errorsCh) + Cardinality(Running) <= ErrorsChCap

\* C17 happens: all the goroutines of a fan-out over two brokers failed and the
\* channel is full.
C17_Witness ==
    /\ pc = "wait"
    /\ ErrorsChCap = 2
    /\ Len(errorsCh) = 2

\* Every goroutine the call spawned has ended.
AllTasksEnded == \A b \in DOMAIN task : task[b].pc = "done"

\* C18: when GetGroupOffsets returns, every goroutine it spawned has ended; and
\* when the requests to the brokers return, a call that has spawned its
\* goroutines returns.
C18_JoinedBeforeReturn ==
    /\ [](Returned => AllTasksEnded)
    /\ (pc = "wait") ~> Returned

\* C18 happens: a call over two brokers returned from the return point of the
\* failed FetchOffset request.
C18_Witness ==
    /\ Returned
    /\ Cardinality(DOMAIN task) = 2
    /\ fetchRes.status = "transport"

\* The messages of the errors of the range phase.
RangePhaseErrors ==
    { "failed to create sarama.Client", "failed to get topic partitions",
      "failed to get partition leader", "failed to fetch oldest offset",
      "failed to fetch newest offset" }

\* C19: the coordinator is asked only after every goroutine has been joined and
\* none reported an error; a call whose range phase failed sends it no request.
C19_CoordinatorAfterJoin ==
    /\ (pc = "coordinator" \/ fetchRes.status # "none") =>
          /\ AllTasksEnded
          /\ wg = 0
          /\ FailedTasks = {}
          /\ errorsCh = <<>>
    /\ (Returned /\ ret.err.msg \in RangePhaseErrors) => fetchRes.status = "none"

\* C19 happens: the goroutines of two brokers were joined without error and the
\* call is about to ask the coordinator.
C19_Witness ==
    /\ pc = "coordinator"
    /\ Cardinality(DOMAIN task) = 2
    /\ AllTasksEnded

====
